---- MODULE Spec2Model ----
(***************************************************************************)
(* Model of lib/ansible/modules/database/postgresql/postgresql_vacuum.py:  *)
(* transform_tables_representation, Vacuum.do and the part of main() that  *)
(* calls them and reports the result.                                      *)
(*                                                                         *)
(* Python values are represented as follows.                               *)
(*   - str            : a TLA+ string;                                     *)
(*   - an optional    : <<>> for None (or a missing key), <<v>> for v;     *)
(*   - a datetime     : its number of seconds since 1970-01-01, so that    *)
(*                      (d - datetime(1970,1,1)).total_seconds() is the    *)
(*                      number itself;                                     *)
(*   - a row of the   : the sequence of its six columns; Python's row[i]   *)
(*     statistics       is the (i+1)-th element, and an index past the end *)
(*                      raises IndexError.                                 *)
(* module.params is the record `params`; the validation AnsibleModule does *)
(* before Vacuum is constructed is outside the model, so every combination *)
(* of the options Vacuum.do reads is an input.                             *)
(***************************************************************************)
EXTENDS Integers, Sequences, FiniteSets, TLC

\* ------------------------------------------------------------------ bounds
\* Longest list given as the tables option.
MaxTables == 2
\* skip_period, when given, is 0 .. MaxSkip seconds.
MaxSkip == 2

\* ----------------------------------------------------------- input domains
\* The relations a database of the model may hold, as (schema, name).
Relations == {<<"public", "t1">>, <<"s1", "t2">>}

\* The spellings a caller may use in the tables option.
RawNames == {" t1", "s1.t2"}

\* A timestamp column of a statistics row: NULL, or one second after the
\* epoch.
Tstamps == {<<>>, <<1>>}

\* datetime.utcnow() as seconds since the epoch. It is later than every
\* recorded timestamp, and with skip_period in 1 .. MaxSkip the threshold
\* UtcNow - skip_period takes every value from MaxSkip down to 1: after the
\* recorded timestamp, and equal to it.
UtcNow == MaxSkip + 1

\* ------------------------------------------------------- Python primitives
\* Truth value of an optional int as Python's `if x:` sees it: None and 0
\* are false.
TruthyInt(opt) == opt # <<>> /\ opt[1] # 0

\* Truth value of an optional str: None and '' are false.
TruthyStr(opt) == opt # <<>> /\ opt[1] # ""

\* Truth value of an optional datetime: only None is false.
TruthyTime(opt) == opt # <<>>

\* `sub in s` for a one-character sub.
RECURSIVE HasCharFrom(_, _, _)
HasCharFrom(s, c, i) ==
    IF i > Len(s) THEN FALSE
    ELSE IF SubSeq(s, i, i) = c THEN TRUE
    ELSE HasCharFrom(s, c, i + 1)

HasChar(s, c) == HasCharFrom(s, c, 1)

\* s.lstrip(c) / s.rstrip(c) / s.strip(c) for a one-character c.
RECURSIVE LStrip(_, _)
LStrip(s, c) ==
    IF Len(s) > 0 /\ SubSeq(s, 1, 1) = c
    THEN LStrip(SubSeq(s, 2, Len(s)), c)
    ELSE s

RECURSIVE RStrip(_, _)
RStrip(s, c) ==
    IF Len(s) > 0 /\ SubSeq(s, Len(s), Len(s)) = c
    THEN RStrip(SubSeq(s, 1, Len(s) - 1), c)
    ELSE s

Strip(s, c) == RStrip(LStrip(s, c), c)

\* s.split(c): the pieces of s between the occurrences of c, as a sequence.
RECURSIVE SplitFrom(_, _, _, _)
SplitFrom(s, c, start, i) ==
    IF i > Len(s) THEN <<SubSeq(s, start, Len(s))>>
    ELSE IF SubSeq(s, i, i) = c
         THEN <<SubSeq(s, start, i - 1)>> \o SplitFrom(s, c, i + 1, i + 1)
         ELSE SplitFrom(s, c, start, i + 1)

Split(s, c) == SplitFrom(s, c, 1, 1)

\* sep.join(parts)
RECURSIVE Join(_, _)
Join(sep, parts) ==
    IF parts = <<>> THEN ""
    ELSE IF Len(parts) = 1 THEN parts[1]
    ELSE parts[1] \o sep \o Join(sep, Tail(parts))

\* `x in lst`
InList(x, lst) == \E i \in 1..Len(lst) : lst[i] = x

\* row[i] with Python's 0-based index.
IndexOK(row, i) == i + 1 \in DOMAIN row

Item(row, i) == row[i + 1]

\* ------------------------------------------------- module_utils collaborators
\* pg_quote_identifier(identifier, 'table') for identifiers without quote
\* characters: every dot-separated fragment is wrapped in double quotes.
RECURSIVE QuoteAll(_)
QuoteAll(parts) ==
    IF parts = <<>> THEN <<>>
    ELSE <<"\"" \o Head(parts) \o "\"">> \o QuoteAll(Tail(parts))

pg_quote_identifier(identifier) == Join(".", QuoteAll(Split(identifier, ".")))

\* What exec_sql(obj, query, ddl=True) returns when the database ran the
\* statement; when the database rejects it, exec_sql calls fail_json.
ExecSqlReturns == TRUE

\* ------------------------------------------ transform_tables_representation
TransformOne(table) ==
    IF ~HasChar(table, ".")
    THEN pg_quote_identifier("public." \o Strip(table, " "))
    ELSE pg_quote_identifier(Strip(table, " "))

\* TransformOne tabulated over the spellings of the model.
TransformMemo == [t \in RawNames |-> TransformOne(t)]

transform_tables_representation(tbls) ==
    [i \in 1..Len(tbls) |-> TransformMemo[tbls[i]]]

\* ------------------------------------------------------------------- state
VARIABLES
    pc,                \* "main" before main() runs Vacuum.do; then how main()
                       \* ended: "done" (module.exit_json), "failed"
                       \* (module.fail_json) or "error" (an exception)
    params,            \* module.params and module.check_mode
    catalog,           \* the (schema, name) pairs of information_schema.tables
    stat_user_tables,  \* Vacuum.stat_user_tables
    tbl_list,          \* the argument of Vacuum.do
    outcomes,          \* per row visited by the loop of do, how the body ended
    tmp_tbl_list,      \* do's local of the same name
    query,             \* do's local query, <<>> before it is composed
    changed,           \* Vacuum.changed
    executed_queries,  \* Vacuum.executed_queries
    sent,              \* statements handed to exec_sql(..., ddl=True)
    fail_msg,          \* msg of module.fail_json, <<>> if not called
    result             \* arguments of module.exit_json, <<>> if not called

vars == <<pc, params, catalog, stat_user_tables, tbl_list, outcomes,
          tmp_tbl_list, query, changed, executed_queries, sent, fail_msg,
          result>>

\* ------------------------------------------------------ Vacuum.__check_table
TableSchema(tblname) ==
    LET tmp == Split(tblname, ".") IN Strip(tmp[Len(tmp) - 1], "\"")

TableName(tblname) ==
    LET tmp == Split(tblname, ".") IN Strip(tmp[Len(tmp)], "\"")

\* The arguments __check_table can receive, and for each the (table_schema,
\* table_name) of its query and the msg of its fail_json.
CheckTableArgs == {TransformMemo[t] : t \in RawNames}

CheckTableKey ==
    [q \in CheckTableArgs |-> <<TableSchema(q), TableName(q)>>]

CheckTableMsg ==
    [q \in CheckTableArgs |->
        "table " \o TableName(q) \o " in schema " \o TableSchema(q)
            \o " does not exist"]

\* The SELECT on information_schema.tables returns a row.
TableExists(cat, tblname) == CheckTableKey[tblname] \in cat

NotExistMsg(tblname) == CheckTableMsg[tblname]

\* A do() that checks only its first target.
MissingTargets_FirstOnly(cat, tl) ==
    {i \in 1..Len(tl) : i = 1 /\ ~TableExists(cat, tl[i])}

\* The targets on which __check_table calls fail_json, by position.
MissingTargets(cat, tl) == {i \in 1..Len(tl) : ~TableExists(cat, tl[i])}

FirstMissing(cat, tl) ==
    CHOOSE i \in MissingTargets(cat, tl) :
        \A j \in MissingTargets(cat, tl) : i <= j

\* ------------------------------------------------------------------ Vacuum.do
\* The first element of opt_list.
ModeKeyword(p) ==
    IF p.analyze_only THEN "ANALYZE"
    ELSE IF p.full THEN "VACUUM_FULL"
    ELSE "VACUUM"

\* '"%s"."%s"' % (schema, table)
QuotedPair(schema, table) == "\"" \o schema \o "\".\"" \o table \o "\""

QuotedPairMemo == [r \in Relations |-> QuotedPair(r[1], r[2])]

TblName(row) == QuotedPairMemo[<<Item(row, 0), Item(row, 1)>>]

\* A guard that forgets the full option.
FilterApplies_IgnoreFull(p) == TruthyInt(p.skip_period)

\* The guard of the skip_period block.
FilterApplies(p) == ~p.full /\ TruthyInt(p.skip_period)

\* skip_tstamp
SkipTstamp(p) == UtcNow - p.skip_period[1]

\* last_* : 0 unless the column holds a timestamp.
LastOf(col) == IF TruthyTime(col) THEN col[1] ELSE 0

\* The condition under which the loop body executes `continue`.
SkipTest(skip_tstamp, last_a, last_b) ==
    skip_tstamp > last_a \/ skip_tstamp > last_b

\* The two row indices the skip_period block reads.
FilterColumns(p) == IF p.analyze_only THEN <<5, 6>> ELSE <<3, 4>>

\* How the loop body ends for one row:
\*   "not_target"  continue, the row is not in tbl_list
\*   "index_error" row[i] raised IndexError
\*   "skipped"     continue in the skip_period block
\*   "selected"    the end of the body is reached
RowOutcome(row, tl, p) ==
    IF tl # <<>> /\ ~InList(TblName(row), tl) THEN "not_target"
    ELSE IF ~FilterApplies(p) THEN "selected"
    ELSE LET c == FilterColumns(p) IN
         IF ~IndexOK(row, c[1]) \/ ~IndexOK(row, c[2]) THEN "index_error"
         ELSE IF SkipTest(SkipTstamp(p), LastOf(Item(row, c[1])),
                          LastOf(Item(row, c[2])))
              THEN "skipped"
              ELSE "selected"

\* The loop over stat_user_tables from row i on; an exception ends it.
RECURSIVE LoopOutcomes(_, _, _, _)
LoopOutcomes(rows, tl, p, i) ==
    IF i > Len(rows) THEN <<>>
    ELSE LET o == RowOutcome(rows[i], tl, p) IN
         IF o = "index_error" THEN <<o>>
         ELSE <<o>> \o LoopOutcomes(rows, tl, p, i + 1)

\* A loop that inserts at the front of tmp_tbl_list instead of appending.
RECURSIVE TmpTblList_Prepend(_, _, _, _)
TmpTblList_Prepend(rows, outs, tl, n) ==
    IF n = 0 THEN <<>>
    ELSE (IF tl # <<>> /\ outs[n] = "selected" THEN <<TblName(rows[n])>>
          ELSE <<>>)
         \o TmpTblList_Prepend(rows, outs, tl, n - 1)

\* tmp_tbl_list after the rows 1..n.
RECURSIVE TmpTblList(_, _, _, _)
TmpTblList(rows, outs, tl, n) ==
    IF n = 0 THEN <<>>
    ELSE TmpTblList(rows, outs, tl, n - 1) \o
         (IF tl # <<>> /\ outs[n] = "selected" THEN <<TblName(rows[n])>>
          ELSE <<>>)

\* A loop that sets self.changed before the skip test instead of after it.
LoopChanged_BeforeContinue(outs, p) ==
    /\ p.check_mode
    /\ FilterApplies(p)
    /\ \E i \in 1..Len(outs) : outs[i] \in {"selected", "skipped"}

\* self.changed after the loop.
LoopChanged(outs, p) ==
    /\ p.check_mode
    /\ FilterApplies(p)
    /\ \E i \in 1..Len(outs) : outs[i] = "selected"

\* opt_list and query.
OptList(p, tmp) ==
    <<ModeKeyword(p)>>
        \o (IF TruthyStr(p.additional_args) THEN <<p.additional_args[1]>>
            ELSE <<>>)
        \o (IF tmp # <<>> THEN <<Join(", ", tmp)>> ELSE <<>>)

Query(p, tmp) == Join(" ", OptList(p, tmp))

\* A check_mode block without the skip_period test.
CheckModeChanged_NoForce(loop_changed, p) == loop_changed

\* self.changed in the check_mode block.
CheckModeChanged(loop_changed, p) ==
    IF ~TruthyInt(p.skip_period) THEN TRUE ELSE loop_changed

\* ----------------------------------------------------------------- inputs
\* The four timestamp columns of a row.
TstampColumns == Tstamps \X Tstamps \X Tstamps \X Tstamps

\* Orders in which relations can come back from pg_stat_user_tables: every
\* relation at most once.
RelationOrders ==
    {s \in UNION {[1..n -> Relations] : n \in 0..Cardinality(Relations)} :
        \A i, j \in 1..Len(s) : s[i] = s[j] => i = j}

\* Results of get_user_tables_stat: rows of schemaname, relname, last_vacuum,
\* last_autovacuum, last_analyze, last_autoanalyze.
Snapshots ==
    UNION {{[i \in 1..Len(rs) |-> rs[i] \o ts[i]] :
               ts \in [1..Len(rs) -> TstampColumns]} : rs \in RelationOrders}

SnapshotRelations(rows) == {<<rows[i][1], rows[i][2]>> : i \in 1..Len(rows)}

TableLists == UNION {[1..n -> RawNames] : n \in 0..MaxTables}

SkipPeriods == {<<>>} \cup {<<n>> : n \in 0..MaxSkip}

ParamValues ==
    [tables : TableLists,
     skip_period : SkipPeriods,
     analyze_only : BOOLEAN,
     full : BOOLEAN,
     additional_args : {<<>>, <<"analyze">>},
     check_mode : BOOLEAN]

\* main(): the argument of vacuum.do.
TblList(p) ==
    IF p.tables # <<>> THEN transform_tables_representation(p.tables)
    ELSE <<>>

\* The state when main() has constructed Vacuum(module, cursor).
Init ==
    /\ pc = "main"
    /\ params \in ParamValues
    /\ stat_user_tables \in Snapshots
    /\ catalog \in {c \in SUBSET Relations :
                        SnapshotRelations(stat_user_tables) \subseteq c}
    /\ tbl_list = <<>>
    /\ outcomes = <<>>
    /\ tmp_tbl_list = <<>>
    /\ query = <<>>
    /\ changed = FALSE
    /\ executed_queries = <<>>
    /\ sent = <<>>
    /\ fail_msg = <<>>
    /\ result = <<>>

\* ---------------------------------------------------------------- actions
\* Each action is one way main() runs from the construction of Vacuum to its
\* end: transform_tables_representation, Vacuum.do, module.exit_json.

\* __check_table calls fail_json on a target.
MainTableMissing ==
    LET tl == TblList(params) IN
    /\ pc = "main"
    /\ MissingTargets(catalog, tl) # {}
    /\ tbl_list' = tl
    /\ fail_msg' = <<NotExistMsg(tl[FirstMissing(catalog, tl)])>>
    /\ pc' = "failed"
    /\ UNCHANGED <<params, catalog, stat_user_tables, outcomes, tmp_tbl_list,
                   query, changed, executed_queries, sent, result>>

\* The loop over the rows raises IndexError.
MainIndexError ==
    LET tl == TblList(params)
        outs == LoopOutcomes(stat_user_tables, tl, params, 1)
    IN
    /\ pc = "main"
    /\ MissingTargets(catalog, tl) = {}
    /\ InList("index_error", outs)
    /\ tbl_list' = tl
    /\ outcomes' = outs
    /\ tmp_tbl_list' = TmpTblList(stat_user_tables, outs, tl, Len(outs))
    /\ changed' = LoopChanged(outs, params)
    /\ pc' = "error"
    /\ UNCHANGED <<params, catalog, stat_user_tables, query,
                   executed_queries, sent, fail_msg, result>>

\* Check mode: the query is recorded and not executed.
MainCheckMode ==
    LET tl == TblList(params)
        outs == LoopOutcomes(stat_user_tables, tl, params, 1)
        tmp == TmpTblList(stat_user_tables, outs, tl, Len(outs))
        chg == CheckModeChanged(LoopChanged(outs, params), params)
        qs == Append(executed_queries, Query(params, tmp))
    IN
    /\ pc = "main"
    /\ MissingTargets(catalog, tl) = {}
    /\ ~InList("index_error", outs)
    /\ params.check_mode
    /\ tbl_list' = tl
    /\ outcomes' = outs
    /\ tmp_tbl_list' = tmp
    /\ query' = <<Query(params, tmp)>>
    /\ changed' = chg
    /\ executed_queries' = qs
    /\ result' = <<[changed |-> chg, queries |-> qs]>>
    /\ pc' = "done"
    /\ UNCHANGED <<params, catalog, stat_user_tables, sent, fail_msg>>

\* Outside check mode: exec_sql(self, query, ddl=True) returns True.
MainExecute ==
    LET tl == TblList(params)
        outs == LoopOutcomes(stat_user_tables, tl, params, 1)
        tmp == TmpTblList(stat_user_tables, outs, tl, Len(outs))
        qs == Append(executed_queries, Query(params, tmp))
    IN
    /\ pc = "main"
    /\ MissingTargets(catalog, tl) = {}
    /\ ~InList("index_error", outs)
    /\ ~params.check_mode
    /\ tbl_list' = tl
    /\ outcomes' = outs
    /\ tmp_tbl_list' = tmp
    /\ query' = <<Query(params, tmp)>>
    /\ sent' = Append(sent, Query(params, tmp))
    /\ executed_queries' = qs
    /\ changed' = (ExecSqlReturns \/ changed)
    /\ result' = <<[changed |-> (ExecSqlReturns \/ changed), queries |-> qs]>>
    /\ pc' = "done"
    /\ UNCHANGED <<params, catalog, stat_user_tables, fail_msg>>

\* Outside check mode: the database rejects the statement and exec_sql
\* calls fail_json.
MainExecuteError ==
    LET tl == TblList(params)
        outs == LoopOutcomes(stat_user_tables, tl, params, 1)
        tmp == TmpTblList(stat_user_tables, outs, tl, Len(outs))
    IN
    /\ pc = "main"
    /\ MissingTargets(catalog, tl) = {}
    /\ ~InList("index_error", outs)
    /\ ~params.check_mode
    /\ tbl_list' = tl
    /\ outcomes' = outs
    /\ tmp_tbl_list' = tmp
    /\ query' = <<Query(params, tmp)>>
    /\ sent' = Append(sent, Query(params, tmp))
    /\ fail_msg' = <<"Cannot execute SQL '" \o Query(params, tmp) \o "'">>
    /\ pc' = "failed"
    /\ UNCHANGED <<params, catalog, stat_user_tables, changed,
                   executed_queries, result>>

Next ==
    \/ MainTableMissing
    \/ MainIndexError
    \/ MainCheckMode
    \/ MainExecute
    \/ MainExecuteError

Spec == Init /\ [][Next]_vars

\* ====================================================================
\* Properties
\* ====================================================================
\* Vocabulary of the properties, stated without the operators of the model.

\* The relation each spelling of the tables option names.
NamedRelation ==
    (" t1" :> <<"public", "t1">>) @@ ("s1.t2" :> <<"s1", "t2">>)

RowRelation(i) == <<stat_user_tables[i][1], stat_user_tables[i][2]>>

\* Positions of the given targets that name no relation of the catalog.
MissingNamed ==
    {k \in 1..Len(params.tables) : NamedRelation[params.tables[k]] \notin catalog}

\* main() ran and every given target exists, so do() reached its loop.
LoopRan == pc # "main" /\ MissingNamed = {}

\* Row i is a candidate: no targets are given, or a target names it.
Candidate(i) ==
    \/ params.tables = <<>>
    \/ \E k \in 1..Len(params.tables) :
           NamedRelation[params.tables[k]] = RowRelation(i)

Selected(i) == i <= Len(outcomes) /\ outcomes[i] = "selected"

Skipped(i) == i <= Len(outcomes) /\ outcomes[i] = "skipped"

\* A timestamp column in seconds, an absent one counting as 0.
Seconds(col) == IF col = <<>> THEN 0 ELSE col[1]

\* The timestamp pair of the mode: last_vacuum and last_autovacuum, or
\* last_analyze and last_autoanalyze in ANALYZE mode.
OwnPair(i) ==
    LET row == stat_user_tables[i] IN
    IF params.analyze_only
    THEN <<Seconds(row[5]), Seconds(row[6])>>
    ELSE <<Seconds(row[3]), Seconds(row[4])>>

\* now - skip_period
Threshold == UtcNow - params.skip_period[1]

SkipPeriodSet == params.skip_period # <<>>

SkipPeriodNonZero == SkipPeriodSet /\ params.skip_period[1] # 0

Rows == 1..Len(stat_user_tables)

\* The statement was executed and row i is among the relations it
\* maintains: it names the relation, or it names none and covers them all.
Maintained(i) ==
    /\ pc = "done"
    /\ sent # <<>>
    /\ \/ tmp_tbl_list = <<>>
       \/ InList(TblName(stat_user_tables[i]), tmp_tbl_list)

\* C1: with skip_period set and mode not full, a candidate relation is
\* selected whenever the threshold now - skip_period is after one of the
\* two timestamps of the mode (absent = 0), and it is skipped only when both
\* are at or after the threshold.
C1_SkipRule ==
    (LoopRan /\ SkipPeriodSet /\ ~params.full) =>
        \A i \in Rows :
            Candidate(i) =>
                /\ (Threshold > OwnPair(i)[1] \/ Threshold > OwnPair(i)[2])
                       => Selected(i)
                /\ Skipped(i) =>
                       (OwnPair(i)[1] >= Threshold /\ OwnPair(i)[2] >= Threshold)

\* C2: with skip_period set and no tables given, the executed statement
\* maintains no relation the filter skipped and no relation whose two
\* timestamps of the mode both lie within the last skip_period seconds.
C2_NoMaintenanceOfSkipped ==
    (pc = "done" /\ SkipPeriodSet /\ ~params.full /\ params.tables = <<>>) =>
        \A i \in Rows :
            (\/ Skipped(i)
             \/ (OwnPair(i)[1] >= Threshold /\ OwnPair(i)[2] >= Threshold))
                => ~Maintained(i)

\* C3: when targets are given and the filter skips every one of them, no
\* statement is handed to the executor and, outside check mode, changed
\* stays false.
C3_AllSkippedRunsNothing ==
    (/\ LoopRan
     /\ params.tables # <<>>
     /\ \E i \in Rows : Skipped(i)
     /\ \A i \in Rows : Candidate(i) => Skipped(i)) =>
        /\ sent = <<>>
        /\ ~params.check_mode => ~changed

\* The msg the module documents for a target that does not exist.
MissingMsg(rel) ==
    "table " \o rel[2] \o " in schema " \o rel[1] \o " does not exist"

\* C4: if a given target names no relation of the catalog, main() ends in
\* fail_json with the 'table ... in schema ... does not exist' msg of a
\* missing target, and no statement is composed, recorded or executed and
\* nothing is reported through exit_json.
C4_MissingTargetFails ==
    (pc # "main" /\ MissingNamed # {}) =>
        /\ pc = "failed"
        /\ \E k \in MissingNamed :
               fail_msg = <<MissingMsg(NamedRelation[params.tables[k]])>>
        /\ query = <<>>
        /\ executed_queries = <<>>
        /\ sent = <<>>
        /\ result = <<>>
        /\ ~changed

\* C4 happens: the run failed on the second target although the first one
\* exists.
C4_Witness ==
    /\ pc = "failed"
    /\ Len(params.tables) = 2
    /\ NamedRelation[params.tables[1]] \in catalog
    /\ NamedRelation[params.tables[2]] \notin catalog
    /\ fail_msg = <<MissingMsg(NamedRelation[params.tables[2]])>>

\* C5: in check mode with skip_period unset, nothing is handed to the
\* statement executor, and every run whose targets all exist ends in
\* exit_json reporting changed True and the composed statement as its one
\* query.
C5_CheckModeNoSkipPeriod ==
    (pc # "main" /\ params.check_mode /\ ~SkipPeriodSet) =>
        /\ sent = <<>>
        /\ MissingNamed = {} =>
               /\ pc = "done"
               /\ query # <<>>
               /\ result = <<[changed |-> TRUE, queries |-> <<query[1]>>]>>

\* C5 happens: a check-mode run without skip_period over a non-empty
\* snapshot with targets, none of which the loop had a reason to report.
C5_Witness ==
    /\ pc = "done"
    /\ params.check_mode
    /\ ~SkipPeriodSet
    /\ params.tables # <<>>
    /\ \E i \in Rows : Selected(i)
    /\ \E i \in Rows : ~Candidate(i)
    /\ result[1].changed

\* C6 as stated: in check mode with skip_period set and mode not full,
\* changed is reported True only if the filter selected a candidate
\* relation.
C6_ChangedOnlyIfSelected ==
    (pc = "done" /\ params.check_mode /\ SkipPeriodSet /\ ~params.full) =>
        (result[1].changed => \E i \in Rows : Selected(i))

\* C6 amended: the same for a skip_period other than 0; a skip_period of 0
\* is treated as unset and changed is reported True.
C6_ChangedOnlyIfSelectedNonZero ==
    (pc = "done" /\ params.check_mode /\ SkipPeriodSet /\ ~params.full) =>
        IF params.skip_period[1] # 0
        THEN result[1].changed => \E i \in Rows : Selected(i)
        ELSE result[1].changed

\* C6 happens: a check-mode run with a positive skip_period in which every
\* candidate was skipped and changed is reported False.
C6_Witness ==
    /\ pc = "done"
    /\ params.check_mode
    /\ SkipPeriodNonZero
    /\ ~params.full
    /\ \E i \in Rows : Skipped(i)
    /\ ~result[1].changed

\* C7: in ANALYZE mode with a positive skip_period, a candidate relation
\* whose last_analyze and last_autoanalyze are both absent is selected.
C7_AbsentNeverSkipped ==
    (LoopRan /\ params.analyze_only /\ ~params.full /\ SkipPeriodNonZero) =>
        \A i \in Rows :
            (/\ Candidate(i)
             /\ stat_user_tables[i][5] = <<>>
             /\ stat_user_tables[i][6] = <<>>) => Selected(i)

\* The mode keyword as documented: two words for full.
DocumentedKeyword ==
    IF params.analyze_only THEN "ANALYZE"
    ELSE IF params.full THEN "VACUUM FULL"
    ELSE "VACUUM"

\* C8: the composed statement is the mode keyword (ANALYZE, VACUUM FULL or
\* VACUUM), additional_args if present and the comma-joined selected targets
\* if any, joined by single spaces.
C8_Statement ==
    query # <<>> =>
        query[1] =
            Join(" ",
                 <<DocumentedKeyword>>
                     \o (IF params.additional_args \notin {<<>>, <<"">>}
                         THEN params.additional_args ELSE <<>>)
                     \o (IF tmp_tbl_list # <<>>
                         THEN <<Join(", ", tmp_tbl_list)>> ELSE <<>>))

\* The quoted name under which a target can appear in the statement names a
\* selected row.
NamesSelectedRow(name) ==
    \E i \in Rows : Selected(i) /\ TblName(stat_user_tables[i]) = name

\* The row of the snapshot with the quoted name.
RowOf(name) == CHOOSE i \in Rows : TblName(stat_user_tables[i]) = name

\* C9 as stated: the targets of the statement are the caller's targets that
\* were selected, in the caller's order and with the caller's duplicates.
C9_CallerOrder ==
    query # <<>> => tmp_tbl_list = SelectSeq(tbl_list, NamesSelectedRow)

\* C9 amended: the targets of the statement are the selected rows the caller
\* named, each once and in the order of the rows of the snapshot.
C9_SnapshotOrder ==
    query # <<>> =>
        /\ \A k \in 1..Len(tmp_tbl_list) :
               /\ InList(tmp_tbl_list[k], tbl_list)
               /\ NamesSelectedRow(tmp_tbl_list[k])
        /\ \A k, l \in 1..Len(tmp_tbl_list) :
               k < l => RowOf(tmp_tbl_list[k]) < RowOf(tmp_tbl_list[l])
        /\ \A i \in Rows :
               (Selected(i) /\ tbl_list # <<>>) =>
                   InList(TblName(stat_user_tables[i]), tmp_tbl_list)

\* C9 happens: two targets are in the statement, in the order opposite to
\* the caller's.
C9_Witness ==
    /\ pc = "done"
    /\ Len(tmp_tbl_list) = 2
    /\ tbl_list = <<tmp_tbl_list[2], tmp_tbl_list[1]>>

\* C10: in full mode every candidate row is selected whatever its
\* timestamps and whatever skip_period is, the loop ends normally, and in
\* check mode with a skip_period changed stays False.
C10_FullNoFilter ==
    (LoopRan /\ params.full) =>
        /\ pc # "error"
        /\ Len(outcomes) = Len(stat_user_tables)
        /\ \A i \in Rows :
               outcomes[i] = IF Candidate(i) THEN "selected" ELSE "not_target"
        /\ (params.check_mode /\ SkipPeriodNonZero) => ~changed

\* C10 happens: a full run with a positive skip_period selected a row that
\* the skip test would have skipped, and a check-mode one reported changed
\* False.
C10_Witness ==
    /\ pc = "done"
    /\ params.full
    /\ params.check_mode
    /\ SkipPeriodNonZero
    /\ ~result[1].changed
    /\ \E i \in Rows :
           /\ Selected(i)
           /\ Threshold > Seconds(stat_user_tables[i][4])

====
